---- MODULE Spec2Model ----
(***************************************************************************)
(* Model of the drone-log-analyzer core: read_bin_file (bin_extraction.py) *)
(* demultiplexes the records of an ArduPilot log into channels, and        *)
(* analyze_flight (anomaly_detection.py) runs the three anomaly detectors  *)
(* on the channels.                                                        *)
(*                                                                         *)
(* Numbers.  Samples are integers (voltages in tenths of a volt, so the    *)
(* default threshold 7.2 V is 72).  A Python float computed from them is   *)
(* kept exactly: a finite value is a fraction n/d with d > 0, and the two  *)
(* IEEE results of a division by zero are kept as "inf" and "nan".  A      *)
(* comparison of floats is the comparison of the exact values.             *)
(***************************************************************************)
EXTENDS Integers, Sequences, FiniteSets, TLC

VARIABLES
    pc,         \* position of the program
    decoded,    \* the records recv_match has returned so far, in order
    stream_end, \* why recv_match returned None: "eof" or "truncated"; "open" before
    data,       \* the dict read_bin_file builds (FlightTelemetry)
    results,    \* the dict analyze_flight builds
    params      \* the thresholds the detectors are called with

vars == <<pc, decoded, stream_end, data, results, params>>

(***************************************************************************)
(* Python objects held by a record's field or by a report.                 *)
(***************************************************************************)
Num(n) == [t |-> "num", v |-> n]
PyNone == [t |-> "none", v |-> 0]
PyStr == [t |-> "str", v |-> 0]
IsNumber(x) == x.t = "num"
\* a variant of Truthy that takes only None for false
TruthyNotNone(x) == x.t # "none"
\* bool(x): None and 0 are false, a number other than 0 and a non-empty
\* string are true.
Truthy(x) == (x.t = "num" /\ x.v # 0) \/ x.t = "str"
\* the numbers of a list of numeric objects
Vals(objs) == [i \in DOMAIN objs |-> objs[i].v]

(***************************************************************************)
(* Floats: [k |-> "fin", n, d] is n/d (d > 0); "inf" carries its sign in n *)
(* (1 or -1); "nan" is not-a-number.                                       *)
(***************************************************************************)
Abs(i) == IF i < 0 THEN -i ELSE i
RECURSIVE Gcd(_, _)
Gcd(a, b) == IF b = 0 THEN a ELSE Gcd(b, a % b)
\* the fraction n/d in lowest terms, so that equal values are equal records
Fin(n, d) ==
    LET g == Gcd(Abs(n), d)
    IN  [k |-> "fin", n |-> n \div g, d |-> d \div g]
Inf(s) == [k |-> "inf", n |-> s, d |-> 1]
NaN == [k |-> "nan", n |-> 0, d |-> 1]
Sign(i) == IF i < 0 THEN -1 ELSE IF i > 0 THEN 1 ELSE 0

FSub(a, b) == Fin(a.n * b.d - b.n * a.d, a.d * b.d)
\* a / b in IEEE arithmetic (numpy float64: a zero divisor gives inf or nan
\* and a RuntimeWarning, never an exception)
FDiv(a, b) ==
    IF b.n = 0
    THEN (IF a.n = 0 THEN NaN ELSE Inf(Sign(a.n)))
    ELSE Fin(a.n * b.d * Sign(b.n), a.d * Abs(b.n))
\* x * c for an integer c > 0
FScale(x, c) ==
    IF x.k = "fin" THEN Fin(x.n * c, x.d) ELSE x
FAbs(x) ==
    IF x.k = "fin" THEN Fin(Abs(x.n), x.d)
    ELSE IF x.k = "inf" THEN Inf(1) ELSE NaN
\* x > c for an integer c: every comparison with nan is false
FGreater(x, c) ==
    IF x.k = "fin" THEN x.n > c * x.d
    ELSE IF x.k = "inf" THEN x.n > 0
    ELSE FALSE

RECURSIVE Sum(_)
Sum(s) == IF s = <<>> THEN 0 ELSE Head(s) + Sum(Tail(s))
\* np.mean of a non-empty list of numbers
Mean(s) == Fin(Sum(s), Len(s))

(***************************************************************************)
(* The records of a log.  A DataFlash log is self-describing: the type of  *)
(* a field is what the log's own format records declare, so BAT.Volt can   *)
(* hold a string.  An RCOU record carries the attributes C1..C4 that its   *)
(* format declares: C is a function from the declared indices to values.   *)
(***************************************************************************)
MaxRecords == 3

BatMsg(volt, curr, time_us) ==
    [type |-> "BAT", Volt |-> volt, Curr |-> curr, TimeUS |-> time_us]
VibeMsg(x, y, z) == [type |-> "VIBE", VibeX |-> x, VibeY |-> y, VibeZ |-> z]
GpsMsg(hdop) == [type |-> "GPS", HDop |-> hdop]
BaroMsg(alt) == [type |-> "BARO", Alt |-> alt]
RcouMsg(c) == [type |-> "RCOU", C |-> c]

BatMsgs ==
    { BatMsg(Num(70), Num(5), 1000000),
      BatMsg(Num(74), Num(3), 2500000),
      BatMsg(PyStr, Num(4), 3000000) }
\* axis triples whose magnitude is an integer: 3 and 7
VibeMsgs == { VibeMsg(1, 2, 2), VibeMsg(-2, 3, 6) }
GpsMsgs == { GpsMsg(95), GpsMsg(150) }
BaroMsgs == { BaroMsg(Num(12)), BaroMsg(Num(-3)) }
OtherMsgs == { [type |-> "ATT"] }
Motors == 1..4
\* the PWM value motor i reports
Pwm(i) == 1500 + i
\* an RCOU record declaring the motors outside absent, those in zero at 0
Rcou(absent, zero) ==
    RcouMsg([i \in Motors \ absent |-> IF i \in zero THEN Num(0) ELSE Num(Pwm(i))])
\* every motor present; one motor absent or zero, each motor in turn; an
\* absent and a zero motor in one record; no motor declared; every motor zero
RcouMsgs ==
    { Rcou({}, {}), Rcou({1}, {}), Rcou({}, {2}), Rcou({3}, {}), Rcou({}, {4}),
      Rcou({1}, {3}), Rcou(Motors, {}), Rcou({}, Motors) }
Msgs == BatMsgs \cup VibeMsgs \cup GpsMsgs \cup BaroMsgs \cup OtherMsgs \cup RcouMsgs

\* np.sqrt of a perfect square
Sqrt(n) == CHOOSE r \in 0..n : r * r = n
\* np.sqrt(VibeX**2 + VibeY**2 + VibeZ**2)
VibMagnitude(x, y, z) == Sqrt(x * x + y * y + z * z)
\* a variant of TimeSeconds that takes TimeUS for milliseconds
TimeSecondsMs(time_us) == Fin(time_us, 1000)
\* msg.TimeUS / 1e6
TimeSeconds(time_us) == Fin(time_us, 1000000)
\* msg.HDop / 100.0
Hdop(raw) == Fin(raw, 100)
\* getattr(msg, f'C{i}', default)
GetAttrC(msg, i, default) == IF i \in DOMAIN msg.C THEN msg.C[i] ELSE default

EmptyData ==
    [battery_voltage |-> <<>>, battery_current |-> <<>>, vibration |-> <<>>,
     gps_hdop |-> <<>>, motor_outputs |-> [i \in Motors |-> <<>>],
     altitude |-> <<>>, timestamps |-> <<>>]

\* the body of the loop for one record: the dispatch on msg.get_type()
HandleMsg(d, msg) ==
    IF msg.type = "BAT" THEN
        [d EXCEPT !.battery_voltage = Append(@, msg.Volt),
                  !.battery_current = Append(@, msg.Curr),
                  !.timestamps = Append(@, TimeSeconds(msg.TimeUS))]
    ELSE IF msg.type = "VIBE" THEN
        LET vib_magnitude == VibMagnitude(msg.VibeX, msg.VibeY, msg.VibeZ)
        IN  [d EXCEPT !.vibration = Append(@, Num(vib_magnitude))]
    ELSE IF msg.type = "GPS" THEN
        [d EXCEPT !.gps_hdop = Append(@, Hdop(msg.HDop))]
    ELSE IF msg.type = "RCOU" THEN
        [d EXCEPT !.motor_outputs =
            [i \in Motors |->
                LET channel == GetAttrC(msg, i, PyNone)
                IN  IF Truthy(channel) THEN Append(@[i], channel) ELSE @[i]]]
    ELSE IF msg.type = "BARO" THEN
        [d EXCEPT !.altitude = Append(@, msg.Alt)]
    ELSE d

\* what recv_match(blocking=False) returns once no further record can be
\* parsed: None at the end of the stream, and None too when the bytes left
\* are a truncated or malformed trailing record
RecvAtEnd(why) == PyNone
\* a variant of ReturnedData that gives up what was decoded
ReturnedNothing(d) == EmptyData
\* return data
ReturnedData(d) == d

DefaultParams == [voltage |-> 72, z |-> 3, imbalance |-> 15]

Init ==
    /\ pc = "recv"
    /\ decoded = <<>>
    /\ stream_end = "open"
    /\ data = EmptyData
    /\ results = <<>>
    /\ params = DefaultParams

\* recv_match returns the next record and the loop body handles it
RecvMsg ==
    /\ pc = "recv"
    /\ Len(decoded) < MaxRecords
    /\ \E msg \in Msgs :
        /\ decoded' = Append(decoded, msg)
        /\ data' = HandleMsg(data, msg)
    /\ UNCHANGED <<pc, stream_end, results, params>>

\* recv_match returns None: the loop breaks, read_bin_file returns data and
\* the caller goes on to analyze_flight(data)
RecvNone ==
    /\ pc = "recv"
    /\ \E why \in {"eof", "truncated"} :
        /\ RecvAtEnd(why) = PyNone
        /\ stream_end' = why
    /\ data' = ReturnedData(data)
    /\ pc' = "sag"
    /\ UNCHANGED <<decoded, results, params>>

(***************************************************************************)
(* The detectors.  A call either returns a value or raises: comparing or   *)
(* averaging a list that holds a string is a TypeError.                    *)
(***************************************************************************)
Return(v) == [exc |-> "none", ret |-> v]
Raise(e) == [exc |-> e, ret |-> <<>>]
AllNumbers(objs) == \A i \in DOMAIN objs : IsNumber(objs[i])

RECURSIVE MinOf(_)
MinOf(s) ==
    IF Len(s) = 1 THEN s[1]
    ELSE LET m == MinOf(Tail(s)) IN IF s[1] < m THEN s[1] ELSE m
RECURSIVE MaxOf(_)
MaxOf(s) ==
    IF Len(s) = 1 THEN s[1]
    ELSE LET m == MaxOf(Tail(s)) IN IF s[1] > m THEN s[1] ELSE m

\* a variant of IsSag that counts a sample equal to the threshold
IsSagOrEqual(v, threshold) == v <= threshold
\* v < threshold, the test of the list comprehension
IsSag(v, threshold) == v < threshold

\* detect_voltage_sag(voltage_data, threshold): (count, sag_events)
DetectVoltageSag(voltage_data, threshold) ==
    IF voltage_data = <<>> THEN Return(<<0, <<>>>>)
    ELSE IF ~AllNumbers(voltage_data) THEN Raise("TypeError")
    ELSE LET sag_events ==
                 SelectSeq(Vals(voltage_data), LAMBDA v : IsSag(v, threshold))
         IN  Return(<<Len(sag_events), sag_events>>)

RECURSIVE SumSq(_)
SumSq(s) == IF s = <<>> THEN 0 ELSE Head(s) * Head(s) + SumSq(Tail(s))
\* Len(s)^2 times the population variance of s, np.std(s)^2:
\* n * sum(v^2) - sum(v)^2, so that np.std(s) = sqrt(VarN2(s)) / Len(s)
VarN2(s) == Len(s) * SumSq(s) - Sum(s) * Sum(s)
\* a variant of ZScoreAbove that compares the deviation, not the z-score:
\* vib - mean > z_threshold
DeviationAbove(vib, s, z_threshold) == Len(s) * vib - Sum(s) > z_threshold * Len(s)
\* a variant of ZScoreAbove that counts a z-score equal to the threshold
ZScoreAtLeast(vib, s, z_threshold) ==
    LET dev == Len(s) * vib - Sum(s)
        lhs == dev * dev
        rhs == z_threshold * z_threshold * VarN2(s)
    IN  IF z_threshold >= 0 THEN dev >= 0 /\ lhs >= rhs
        ELSE dev >= 0 \/ lhs <= rhs
\* (vib - mean) / std > z_threshold, with mean = Sum(s)/n and std as above:
\* with dev = n * vib - Sum(s), the z-score is dev / sqrt(VarN2(s)), and it
\* is compared with z_threshold by sign and by squares
ZScoreAbove(vib, s, z_threshold) ==
    LET dev == Len(s) * vib - Sum(s)
        lhs == dev * dev
        rhs == z_threshold * z_threshold * VarN2(s)
    IN  IF z_threshold >= 0 THEN dev > 0 /\ lhs > rhs
        ELSE dev >= 0 \/ lhs < rhs

\* detect_vibration_spikes(vibration_data, z_threshold): (count, spikes)
DetectVibrationSpikes(vibration_data, z_threshold) ==
    IF vibration_data = <<>> \/ Len(vibration_data) < 2 THEN Return(<<0, <<>>>>)
    ELSE IF ~AllNumbers(vibration_data) THEN Raise("TypeError")
    ELSE LET s == Vals(vibration_data)
         IN  IF VarN2(s) = 0 THEN Return(<<0, <<>>>>)
             ELSE LET spikes ==
                          SelectSeq(s, LAMBDA vib : ZScoreAbove(vib, s, z_threshold))
                  IN  Return(<<Len(spikes), spikes>>)

\* round(n / d) for n >= 0, d > 0, a tie going to the even neighbour
RoundHalfEven(n, d) ==
    LET q == n \div d
        r == n % d
    IN  IF 2 * r < d THEN q
        ELSE IF 2 * r > d THEN q + 1
        ELSE IF q % 2 = 0 THEN q ELSE q + 1
\* f"{x:+.1f}": the sign and the value in tenths, or +inf, -inf, +nan (a
\* deviation of exactly 0 is flagged by no threshold >= 0, so the sign of a
\* float zero is never printed)
Format1f(x) ==
    IF x.k = "fin"
    THEN [k |-> "fin", sign |-> IF x.n < 0 THEN "-" ELSE "+",
          tenths |-> RoundHalfEven(Abs(x.n) * 10, x.d)]
    ELSE [k |-> x.k, sign |-> IF x.k = "inf" /\ x.n < 0 THEN "-" ELSE "+",
          tenths |-> 0]

\* a message: a fixed text, or the items (motor, formatted deviation) of
\* "Motor {motor} is {pct}% from average" joined with "; "
Text(t) == [text |-> t, items |-> <<>>]
Joined(items) == [text |-> "Motor {} is {}% from average", items |-> items]

\* a variant of DeviationPct relative to the motor's own average
DeviationPctOfMotor(motor_avg, overall_avg) ==
    FScale(FDiv(FSub(motor_avg, overall_avg), motor_avg), 100)
\* ((motor_avg - overall_avg) / overall_avg) * 100
DeviationPct(motor_avg, overall_avg) ==
    FScale(FDiv(FSub(motor_avg, overall_avg), overall_avg), 100)
\* a variant of IsImbalanced that flags a deviation equal to the threshold
IsImbalancedOrEqual(deviation_pct, imbalance_threshold) ==
    LET a == FAbs(deviation_pct)
    IN  FGreater(a, imbalance_threshold)
        \/ (a.k = "fin" /\ a.n = imbalance_threshold * a.d)
\* abs(deviation_pct) > imbalance_threshold
IsImbalanced(deviation_pct, imbalance_threshold) ==
    FGreater(FAbs(deviation_pct), imbalance_threshold)

\* the mean of the per-motor means: np.mean([avg for _, avg in motor_avgs])
RECURSIVE SumF(_)
SumF(avgs) ==
    IF avgs = <<>> THEN Fin(0, 1)
    ELSE LET h == Head(avgs)
             t == SumF(Tail(avgs))
         IN  Fin(h.n * t.d + t.n * h.d, h.d * t.d)
MeanF(avgs) == LET t == SumF(avgs) IN Fin(t.n, t.d * Len(avgs))

RECURSIVE SeqOfSet(_)
\* the elements of a set of numbers in increasing order
SeqOfSet(S) ==
    IF S = {} THEN <<>>
    ELSE LET m == CHOOSE x \in S : \A y \in S : x <= y
         IN  <<m>> \o SeqOfSet(S \ {m})

\* detect_motor_imbalance(motor_outputs, imbalance_threshold):
\* (imbalanced, message)
DetectMotorImbalance(motor_outputs, imbalance_threshold) ==
    IF \A i \in Motors : motor_outputs[i] = <<>>
    THEN Return(<<FALSE, Text("No motor data available")>>)
    ELSE
    LET populated == SeqOfSet({i \in Motors : motor_outputs[i] # <<>>})
        \* motor_avgs: (motor number, mean) of every motor with samples
        motor_avgs ==
            [k \in DOMAIN populated |->
                [num |-> populated[k],
                 avg |-> Mean(Vals(motor_outputs[populated[k]]))]]
    IN  IF Len(motor_avgs) < 2
        THEN Return(<<FALSE, Text("Insufficient motor data")>>)
        ELSE
        LET overall_avg == MeanF([k \in DOMAIN motor_avgs |-> motor_avgs[k].avg])
            devs == [k \in DOMAIN motor_avgs |->
                        [num |-> motor_avgs[k].num,
                         pct |-> DeviationPct(motor_avgs[k].avg, overall_avg)]]
            flagged == SelectSeq(devs,
                         LAMBDA e : IsImbalanced(e.pct, imbalance_threshold))
            imbalances == [k \in DOMAIN flagged |->
                             [motor |-> flagged[k].num,
                              pct |-> Format1f(flagged[k].pct)]]
        IN  IF imbalances # <<>>
            THEN Return(<<TRUE, Joined(imbalances)>>)
            ELSE Return(<<FALSE, Text("All motors balanced")>>)

(***************************************************************************)
(* analyze_flight: the three detectors one after the other, each report    *)
(* stored in results.  There is no handler: an exception of a detector     *)
(* leaves analyze_flight at once, and no results are returned.             *)
(***************************************************************************)
VoltageSagReport(r) ==
    [detected |-> r[1] > 0, count |-> r[1],
     extremum |-> IF r[2] # <<>> THEN Num(MinOf(r[2])) ELSE PyNone]
VibrationReport(r) ==
    [detected |-> r[1] > 0, count |-> r[1],
     extremum |-> IF r[2] # <<>> THEN Num(MaxOf(r[2])) ELSE PyNone]
MotorReport(r) == [detected |-> r[1], message |-> r[2]]

\* one detector's call and the assignment of its report
\* (report is the report made of the call's value when it returned one)
AnalyzeStep(here, next, key, call, report) ==
    /\ pc = here
    /\ IF call.exc = "none"
       THEN /\ results' = results @@ (key :> report)
            /\ pc' = next
       ELSE /\ results' = results
            /\ pc' = "raised"
    /\ UNCHANGED <<decoded, stream_end, data, params>>

AnalyzeVoltageSag ==
    LET call == DetectVoltageSag(data.battery_voltage, params.voltage)
    IN  AnalyzeStep("sag", "vib", "voltage_sag", call, VoltageSagReport(call.ret))
AnalyzeVibration ==
    LET call == DetectVibrationSpikes(data.vibration, params.z)
    IN  AnalyzeStep("vib", "motor", "vibration_spikes", call,
                    VibrationReport(call.ret))
AnalyzeMotors ==
    LET call == DetectMotorImbalance(data.motor_outputs, params.imbalance)
    IN  AnalyzeStep("motor", "done", "motor_imbalance", call, MotorReport(call.ret))

Next == RecvMsg \/ RecvNone \/ AnalyzeVoltageSag \/ AnalyzeVibration \/ AnalyzeMotors
Spec == Init /\ [][Next]_vars

(***************************************************************************)
(* Properties of read_bin_file.                                            *)
(***************************************************************************)
Decoding == pc = "recv"
\* the records of one kind among those decoded, in decode order
OfKind(kind) == SelectSeq(decoded, LAMBDA m : m.type = kind)
IsPrefix(s, t) == Len(s) <= Len(t) /\ \A i \in DOMAIN s : s[i] = t[i]

ChannelsMatchRecords ==
    LET bat == OfKind("BAT")
        vibe == OfKind("VIBE")
        gps == OfKind("GPS")
        baro == OfKind("BARO")
    IN  /\ data.battery_voltage = [i \in DOMAIN bat |-> bat[i].Volt]
        /\ data.battery_current = [i \in DOMAIN bat |-> bat[i].Curr]
        /\ DOMAIN data.timestamps = DOMAIN bat
        /\ \A i \in DOMAIN bat :
             LET ts == data.timestamps[i]
             IN  ts.k = "fin" /\ ts.n * 1000000 = bat[i].TimeUS * ts.d
        /\ DOMAIN data.vibration = DOMAIN vibe
        /\ \A i \in DOMAIN vibe :
             LET v == data.vibration[i]
                 m == vibe[i]
             IN  /\ IsNumber(v) /\ v.v >= 0
                 /\ v.v * v.v = m.VibeX * m.VibeX + m.VibeY * m.VibeY
                                + m.VibeZ * m.VibeZ
        /\ DOMAIN data.gps_hdop = DOMAIN gps
        /\ \A i \in DOMAIN gps :
             LET h == data.gps_hdop[i]
             IN  h.k = "fin" /\ h.n * 100 = gps[i].HDop * h.d
        /\ data.altitude = [i \in DOMAIN baro |-> baro[i].Alt]

ChannelsOnlyGrow ==
    /\ IsPrefix(data.battery_voltage, data'.battery_voltage)
    /\ IsPrefix(data.battery_current, data'.battery_current)
    /\ IsPrefix(data.timestamps, data'.timestamps)
    /\ IsPrefix(data.vibration, data'.vibration)
    /\ IsPrefix(data.gps_hdop, data'.gps_hdop)
    /\ IsPrefix(data.altitude, data'.altitude)

\* C1: at every point of decoding and after it, battery_voltage,
\* battery_current and timestamps (TimeUS / 1e6) hold one entry per BAT
\* record decoded, vibration (the magnitude) one per VIBE record, gps_hdop
\* (HDop / 100) one per GPS record and altitude one per BARO record, each in
\* decode order; records of other kinds add nothing; and no step removes,
\* reorders or rewrites an entry.
C1_ChannelsByKind == [](ChannelsMatchRecords) /\ [][ChannelsOnlyGrow]_vars

\* two BAT records with different voltages around an unrecognized record
C1_Witness ==
    /\ Len(decoded) = 3
    /\ decoded[1].type = "BAT" /\ decoded[2].type = "ATT" /\ decoded[3].type = "BAT"
    /\ decoded[1].Volt # decoded[3].Volt
    /\ Len(data.battery_voltage) = 2

\* the motor values a record gives: declared and not zero
Given(msg, i) == i \in DOMAIN msg.C /\ msg.C[i] # Num(0)

MotorStepRight ==
    (Decoding /\ Len(decoded') = Len(decoded) + 1) =>
        LET msg == decoded'[Len(decoded')]
        IN  \A i \in Motors :
              data'.motor_outputs[i] =
                  IF msg.type = "RCOU" /\ Given(msg, i)
                  THEN Append(data.motor_outputs[i], msg.C[i])
                  ELSE data.motor_outputs[i]

NoZeroStored ==
    \A i \in Motors : \A j \in DOMAIN data.motor_outputs[i] :
        data.motor_outputs[i][j] \notin {Num(0), PyNone}

\* C2: an RCOU record appends its value C(i) to motor_outputs[i], and to
\* that channel only, for each motor i whose value is declared and not
\* zero; for a motor whose value is absent or zero it appends nothing; no
\* other record touches a motor channel, and no zero is ever stored.
C2_SparseMotors == [](NoZeroStored) /\ [][MotorStepRight]_vars

\* after a record with motor 1 absent and motor 3 zero and a full record the
\* channels have unequal lengths
C2_Witness ==
    /\ Len(decoded) = 2
    /\ decoded[1] = Rcou({1}, {3}) /\ decoded[2] = Rcou({}, {})
    /\ Len(data.motor_outputs[1]) = 1 /\ Len(data.motor_outputs[2]) = 2
    /\ Len(data.motor_outputs[3]) = 1 /\ Len(data.motor_outputs[4]) = 2

AllBat == \A i \in DOMAIN decoded : decoded[i].type = "BAT"

\* C3: when the stream ends in a truncated or malformed record, decoding has
\* ended without an exception and the data returned holds everything
\* decoded before it; after N Battery records, battery_voltage holds their
\* N voltages in order.
C3_TruncatedTail ==
    stream_end = "truncated" =>
        /\ pc \in {"sag", "vib", "motor", "done", "raised"}
        /\ ChannelsMatchRecords
        /\ AllBat =>
             /\ Len(data.battery_voltage) = Len(decoded)
             /\ \A i \in DOMAIN decoded : data.battery_voltage[i] = decoded[i].Volt

\* two Battery records, then the truncated record
C3_Witness ==
    /\ stream_end = "truncated"
    /\ pc = "sag"
    /\ Len(decoded) = 2 /\ AllBat
    /\ Len(data.battery_voltage) = 2

(***************************************************************************)
(* The detectors on their own: the channels of one detector and its        *)
(* threshold are drawn from bounded sets, and the detectors are called in  *)
(* the order of analyze_flight, each with the threshold drawn for it in    *)
(* place of its default.                                                   *)
(***************************************************************************)
MaxVoltLen == 3
MaxVibLen == 5
MaxMotorSamples == 4
VoltValues == {70, 72, 74}
VoltThresholds == {72, 74}
VibValues == {1, 2, 100}
ZThresholds == {-1, 0, 1, 2, 3}
MotorValues == {-10, 10, 20}
ImbalanceThresholds == {0, 15, 60}

NumSeqs(S, n) == UNION { [1..k -> {Num(v) : v \in S}] : k \in 0..n }
\* the 4 motor channels with at most n samples in all
MotorInputs(S, n) ==
    UNION { { <<a, b, c, d>> :
                a \in [1..l[1] -> {Num(v) : v \in S}],
                b \in [1..l[2] -> {Num(v) : v \in S}],
                c \in [1..l[3] -> {Num(v) : v \in S}],
                d \in [1..l[4] -> {Num(v) : v \in S}] } :
            l \in { m \in [Motors -> 0..n] : m[1] + m[2] + m[3] + m[4] <= n } }

InitDet ==
    /\ pc = "sag"
    /\ decoded = <<>>
    /\ stream_end = "eof"
    /\ results = <<>>
    /\ \/ /\ \E v \in NumSeqs(VoltValues, MaxVoltLen) :
                data = [EmptyData EXCEPT !.battery_voltage = v]
          /\ \E t \in VoltThresholds : params = [DefaultParams EXCEPT !.voltage = t]
       \/ /\ \E v \in NumSeqs(VibValues, MaxVibLen) :
                data = [EmptyData EXCEPT !.vibration = v]
          /\ \E t \in ZThresholds : params = [DefaultParams EXCEPT !.z = t]
       \/ /\ \E m \in MotorInputs(MotorValues, MaxMotorSamples) :
                data = [EmptyData EXCEPT !.motor_outputs = m]
          /\ \E t \in ImbalanceThresholds :
                params = [DefaultParams EXCEPT !.imbalance = t]

NextDet == AnalyzeVoltageSag \/ AnalyzeVibration \/ AnalyzeMotors
SpecDet == InitDet /\ [][NextDet]_vars


(***************************************************************************)
(* Properties of the detectors, stated on the channels themselves.         *)
(***************************************************************************)
Reported(key) == key \in DOMAIN results
SetMin(S) == CHOOSE x \in S : \A y \in S : x <= y
SetMax(S) == CHOOSE x \in S : \A y \in S : x >= y

\* C4: the voltage_sag report has count = the number of samples strictly
\* below the threshold, detected iff count > 0, and min_voltage = the least
\* of those samples, or None when there are none.
C4_VoltageSag ==
    Reported("voltage_sag") =>
        LET ch == Vals(data.battery_voltage)
            r == results["voltage_sag"]
            below == {i \in DOMAIN ch : ch[i] < params.voltage}
        IN  /\ r.count = Cardinality(below)
            /\ r.detected = (below # {})
            /\ r.extremum =
                 IF below = {} THEN PyNone ELSE Num(SetMin({ch[i] : i \in below}))

\* a sample below the threshold and a sample equal to it
C4_Witness ==
    /\ Reported("voltage_sag")
    /\ results["voltage_sag"].count = 1
    /\ \E i \in DOMAIN data.battery_voltage :
         data.battery_voltage[i].v = params.voltage
    /\ Len(data.battery_voltage) = 3

\* The z-score by its definition.  With n samples of sum S, n * (v - mean)
\* is n*v - S, and n^3 times the population variance is the sum SqDev of
\* the squares (n*v_i - S)^2: the z-score of v is
\* (n*v - S) * sqrt(n) / sqrt(SqDev).
NDev(ch, v) == Len(ch) * v - Sum(ch)
SqDev(ch) == Sum([i \in DOMAIN ch |-> NDev(ch, ch[i]) * NDev(ch, ch[i])])
ZAbove(ch, v, t) ==
    LET lhs == NDev(ch, v) * NDev(ch, v) * Len(ch)
        rhs == t * t * SqDev(ch)
    IN  IF t >= 0 THEN NDev(ch, v) > 0 /\ lhs > rhs
        ELSE NDev(ch, v) >= 0 \/ lhs < rhs
Degenerate(ch) == Len(ch) < 2 \/ \A i \in DOMAIN ch : ch[i] = ch[1]
SpikeIdx(ch, t) ==
    IF Degenerate(ch) THEN {} ELSE {i \in DOMAIN ch : ZAbove(ch, ch[i], t)}

VibrationReportRight ==
    LET ch == Vals(data.vibration)
        r == results["vibration_spikes"]
        idx == SpikeIdx(ch, params.z)
    IN  /\ r.count = Cardinality(idx)
        /\ r.detected = (idx # {})
        /\ r.extremum = IF idx = {} THEN PyNone ELSE Num(SetMax({ch[i] : i \in idx}))

\* the samples detect_vibration_spikes returns as spikes
SpikesReturned == DetectVibrationSpikes(data.vibration, params.z).ret[2]
NoSpikeBelowMean ==
    \A k \in DOMAIN SpikesReturned : NDev(Vals(data.vibration), SpikesReturned[k]) >= 0

Channel6 == <<Num(1), Num(1), Num(1), Num(1), Num(100)>>

\* C6 as stated: for the channel [1,1,1,1,100] at z_threshold = 3 the value
\* 100 is flagged: count 1, maximum 100.
C6_AsStated ==
    (Reported("vibration_spikes") /\ data.vibration = Channel6 /\ params.z = 3) =>
        results["vibration_spikes"] =
            [detected |-> TRUE, count |-> 1, extremum |-> Num(100)]

\* C6, amended: for the channel [1,1,1,1,100] the population z-score of 100
\* is 2, so at z_threshold = 3 (and at 2) nothing is flagged (count 0, no
\* maximum); the value 100 alone is flagged (count 1, maximum 100) at
\* z_threshold = 1.
C6_SpikeExample ==
    (Reported("vibration_spikes") /\ data.vibration = Channel6) =>
        /\ params.z \in {2, 3} =>
             results["vibration_spikes"] =
                 [detected |-> FALSE, count |-> 0, extremum |-> PyNone]
        /\ params.z = 1 =>
             results["vibration_spikes"] =
                 [detected |-> TRUE, count |-> 1, extremum |-> Num(100)]

C6_Witness ==
    Reported("vibration_spikes") /\ data.vibration = Channel6 /\ params.z = 3

\* The imbalance by its definition, in integers.  With P the motors that
\* have samples, D the product of their sample counts and A(i) = D * mean of
\* motor i, the mean of the means is T / (D * |P|) for T the sum of the
\* A(i), and the deviation of motor i is (|P| * A(i) - T) / T.
Populated == {i \in Motors : data.motor_outputs[i] # <<>>}
RECURSIVE ProdLen(_)
ProdLen(P) ==
    IF P = {} THEN 1
    ELSE LET i == CHOOSE x \in P : TRUE
         IN  Len(data.motor_outputs[i]) * ProdLen(P \ {i})
ScaledAvg(i) ==
    Sum(Vals(data.motor_outputs[i]))
        * (ProdLen(Populated) \div Len(data.motor_outputs[i]))
RECURSIVE SumScaled(_)
SumScaled(P) ==
    IF P = {} THEN 0
    ELSE LET i == CHOOSE x \in P : TRUE IN ScaledAvg(i) + SumScaled(P \ {i})
OverallT == SumScaled(Populated)
Offending(t) ==
    {i \in Populated :
        100 * Abs(Cardinality(Populated) * ScaledAvg(i) - OverallT) > t * Abs(OverallT)}
\* the motors a message names, in its order
Named(message) == [k \in DOMAIN message.items |-> message.items[k].motor]

ImbalanceRight ==
    LET r == results["motor_imbalance"]
        off == Offending(params.imbalance)
    IN  (Cardinality(Populated) >= 2 /\ OverallT # 0) =>
            /\ r.detected = (off # {})
            /\ off # {} => r.message.text = "Motor {} is {}% from average"
                           /\ Named(r.message) = SeqOfSet(off)
            /\ off = {} => r.message = Text("All motors balanced")

\* C7 as stated: with fewer than 2 motors populated (one, or none) the
\* result is detected = False with the "insufficient data" message;
\* otherwise, for a nonzero overall average, detected iff some populated
\* motor deviates by more than the threshold, the message naming exactly
\* those motors in motor order, or the fixed balanced message.
C7_AsStated ==
    Reported("motor_imbalance") =>
        /\ Cardinality(Populated) < 2 =>
             results["motor_imbalance"] =
                 [detected |-> FALSE, message |-> Text("Insufficient motor data")]
        /\ ImbalanceRight

\* C7, amended: with exactly one motor populated the result is detected =
\* False with "Insufficient motor data", and with none it is detected =
\* False with "No motor data available"; the rest as stated.
C7_MotorImbalance ==
    Reported("motor_imbalance") =>
        /\ Cardinality(Populated) = 1 =>
             results["motor_imbalance"] =
                 [detected |-> FALSE, message |-> Text("Insufficient motor data")]
        /\ Cardinality(Populated) = 0 =>
             results["motor_imbalance"] =
                 [detected |-> FALSE, message |-> Text("No motor data available")]
        /\ ImbalanceRight

\* three motors populated, the first and the last named, the second not
C7_Witness ==
    /\ Reported("motor_imbalance")
    /\ Populated = {1, 2, 4}
    /\ results["motor_imbalance"].detected
    /\ Named(results["motor_imbalance"].message) = <<1, 4>>

\* motors whose mean outputs are 10, 10, 10 and 20
Means8 ==
    /\ Populated = Motors
    /\ \A i \in Motors :
         Sum(Vals(data.motor_outputs[i])) =
             (IF i = 4 THEN 20 ELSE 10) * Len(data.motor_outputs[i])

\* C8 as stated: for means [10,10,10,20] and threshold 15 the message names
\* motor 4 alone.
C8_AsStated ==
    (Reported("motor_imbalance") /\ Means8 /\ params.imbalance = 15) =>
        /\ results["motor_imbalance"].detected
        /\ Named(results["motor_imbalance"].message) = <<4>>

Pct(sign, tenths) == [k |-> "fin", sign |-> sign, tenths |-> tenths]
\* C8, amended: for means [10,10,10,20] (overall average 12.5) and
\* threshold 15 all four motors are flagged: motors 1, 2 and 3 at -20.0%
\* and motor 4 at +60.0%.
C8_ImbalanceExample ==
    (Reported("motor_imbalance") /\ Means8 /\ params.imbalance = 15) =>
        results["motor_imbalance"] =
            [detected |-> TRUE,
             message |-> Joined(<<[motor |-> 1, pct |-> Pct("-", 200)],
                                  [motor |-> 2, pct |-> Pct("-", 200)],
                                  [motor |-> 3, pct |-> Pct("-", 200)],
                                  [motor |-> 4, pct |-> Pct("+", 600)]>>)]

C8_Witness == Reported("motor_imbalance") /\ Means8 /\ params.imbalance = 15

\* C9: with at least 2 motors populated and an overall average of 0 the
\* result is a defined no-imbalance or insufficient-data result: never
\* detected, and no deviation in its message.
C9_ZeroAveragePolicy ==
    (Reported("motor_imbalance") /\ Cardinality(Populated) >= 2 /\ OverallT = 0) =>
        /\ ~results["motor_imbalance"].detected
        /\ results["motor_imbalance"].message.items = <<>>


(***************************************************************************)
(* Properties of analyze_flight.                                           *)
(***************************************************************************)
Detectors == {"voltage_sag", "vibration_spikes", "motor_imbalance"}
AnalysisEnded == pc \in {"done", "raised"}
\* a detector's call on its own channel
CallOf(key) ==
    IF key = "voltage_sag"
    THEN DetectVoltageSag(data.battery_voltage, params.voltage)
    ELSE IF key = "vibration_spikes"
    THEN DetectVibrationSpikes(data.vibration, params.z)
    ELSE DetectMotorImbalance(data.motor_outputs, params.imbalance)

\* C10: when analyze_flight has ended, it has returned a result, and the
\* result holds the report of every detector that does not fail on its own
\* channel, whatever another detector did.
C10_DetectorsIsolated ==
    AnalysisEnded =>
        /\ pc = "done"
        /\ \A key \in Detectors : CallOf(key).exc = "none" => Reported(key)

====
